---- MODULE Spec2Model ----
(***************************************************************************)
(* Sliding-window rate limiter of backend/app/rate_limiter.py: the shared  *)
(* memory fallback store, the Redis sorted-set store driven by one Lua     *)
(* script, the process-wide health flag with its deferred recovery tasks,  *)
(* and the two FastAPI dependencies that turn a decision into a 429.       *)
(*                                                                         *)
(* Time is the integer wall clock read by time.time().  Evaluations are    *)
(* asyncio tasks: they suspend only at `await _redis_client.ping()` and at *)
(* `await redis.eval(...)`; everything else runs without interleaving.     *)
(* Strings are sequences of atoms, ":" "," and " " being atoms of their    *)
(* own, so that concatenation, split and strip are computed, not assumed.  *)
(***************************************************************************)
EXTENDS Integers, Sequences, FiniteSets, TLC

VARIABLES
    now,             \* time.time()
    ticks,           \* number of clock advances so far (bounded by MaxTicks)
    limits,          \* environment: how many evaluations, suspended calls, clock
                     \* advances and failed Redis calls one behaviour holds
    gaps,            \* environment: the amounts by which the clock advances
    contexts,        \* environment: the request contexts callers send
    limiter,         \* the AsyncRateLimiter instances: kind, max_requests, window_seconds
    redis_url,       \* settings.redis_url is set
    redis_installed, \* `import redis.asyncio` succeeds
    last_cleanup,    \* limiter index -> self._last_cleanup
    memory_store,    \* _memory_store: key -> list of timestamps (keys present only)
    redis_client,    \* _redis_client: "None", "False" or "Client"
    redis_healthy,   \* _redis_healthy
    zset,            \* Redis: key -> [members, expire_at] (existing keys only)
    recovery,        \* pending _schedule_redis_recovery tasks: their wake-up times
    reqs,            \* every evaluation started so far, in start order
    decided,         \* number of evaluations that have returned
    last_failure,    \* time of the most recent failed Redis call (-1: none yet)
    breaker_event,   \* what last set _redis_healthy: "none", "unavailable",
                     \* "ping_failed", "eval_failed", "probe" or "reset"
    reset_fresh      \* reset_redis_health ran and no evaluation has started since

vars == <<now, ticks, limits, gaps, contexts, limiter, redis_url, redis_installed,
          last_cleanup, memory_store, redis_client, redis_healthy, zset,
          recovery, reqs, decided, last_failure, breaker_event, reset_fresh>>

env == <<limits, gaps, contexts, limiter, redis_url, redis_installed>>

(***************************************************************************)
(* Bounds of the model and constants of the program.                       *)
(***************************************************************************)
MaxReq == 3              \* evaluations started in one behaviour
MaxInFlight == 2         \* evaluations suspended in a Redis call at once
MaxTicks == 2            \* clock advances in one behaviour
MaxFaults == 2           \* Redis calls that fail in one behaviour
AloneReq == 5            \* the same, where one limiter is used alone
AloneInFlight == 1
AloneTicks == 4
AloneFaults == 1
BreakerReq == 4          \* evaluations started where only the breaker is watched
KeysReq == 2             \* the same, where the callers vary
KeysInFlight == 1
KeysTicks == 1
KeysFaults == 1
SweepReq == 3            \* the same, where the sweeps are watched
SweepInFlight == 1
SweepTicks == 2
SweepFaults == 1
RaceReq == 4             \* the same, where evaluations overtake each other
RaceInFlight == 2
RaceTicks == 3
RaceFaults == 2
ProbeReq == 4            \* the same, where connection probes overlap resets
ProbeInFlight == 2
ProbeTicks == 1
ProbeFaults == 3
StaleReq == 4            \* the same, where a sweep falls due under a suspended call
StaleInFlight == 2
StaleTicks == 5
StaleFaults == 3

cleanup_interval == 300  \* self._cleanup_interval
RecoveryDelay == 30      \* asyncio.sleep(30)
ExpiryBuffer == 10       \* expiry = self.window_seconds + 10
socket_timeout == 5      \* socket_timeout=5: an awaited Redis call ends within it

\* The process starts long after the epoch: time.time() exceeds every window.
StartTime == 4 * cleanup_interval

Min(S) == CHOOSE x \in S : \A y \in S : x <= y

(***************************************************************************)
(* Strings.                                                                *)
(***************************************************************************)
\* had the dependency forgotten to split the header
WholeHeader(s) == s

RECURSIVE SplitFirst(_)
\* s.split(",")[0]
SplitFirst(s) ==
    IF s = <<>> \/ Head(s) = "," THEN <<>> ELSE <<Head(s)>> \o SplitFirst(Tail(s))

RECURSIVE LStrip(_)
LStrip(s) == IF s # <<>> /\ Head(s) = " " THEN LStrip(Tail(s)) ELSE s

RECURSIVE RStrip(_)
RStrip(s) ==
    IF s # <<>> /\ s[Len(s)] = " " THEN RStrip(SubSeq(s, 1, Len(s) - 1)) ELSE s

\* s.strip()
Strip(s) == RStrip(LStrip(s))

\* The caller's address: first X-Forwarded-For value, else request.client.host,
\* else "unknown".  An absent header and an empty one are both falsy: <<>>.
ClientIp(c) ==
    IF c.forwarded_for # <<>> THEN Strip(SplitFirst(c.forwarded_for))
    ELSE IF c.has_client THEN c.client_host
    ELSE <<"unknown">>

\* client_id passed to check_rate_limit by _rate_limit_dependency
IpClientId(c) == ClientIp(c)

\* client_id passed to check_rate_limit by _user_rate_limit_dependency
UserClientId(c) ==
    IF c.has_user THEN <<"user", ":">> \o c.user_id
    ELSE <<"ip", ":">> \o ClientIp(c)

ClientId(l, c) ==
    IF limiter[l].kind = "user" THEN UserClientId(c) ELSE IpClientId(c)

\* had check_rate_limit used client_id as the key
StoreKeyBare(client_id) == client_id

\* key = f"rate_limit:{client_id}"
StoreKey(client_id) == <<"rate_limit", ":">> \o client_id

(***************************************************************************)
(* Memory fallback store.                                                  *)
(***************************************************************************)
\* had the prune kept the record that is exactly one window old
PruneListInclusive(timestamps, current_time, window) ==
    SelectSeq(timestamps, LAMBDA req_time : current_time - req_time <= window)

\* [req_time for req_time in timestamps if current_time - req_time < window]
PruneList(timestamps, current_time, window) ==
    SelectSeq(timestamps, LAMBDA req_time : current_time - req_time < window)

\* _cleanup_memory_store runs its sweep on this call
CleanupDue(l) == now - last_cleanup[l] > cleanup_interval

\* had the sweep pruned the lists without deleting the keys left empty
CleanupKeepsEmpty(l) ==
    IF CleanupDue(l)
    THEN [k \in DOMAIN memory_store |->
            PruneList(memory_store[k], now, limiter[l].window_seconds)]
    ELSE memory_store

\* _memory_store after _cleanup_memory_store of limiter l
CleanupMemoryStore(l) ==
    IF CleanupDue(l)
    THEN LET pruned(k) == PruneList(memory_store[k], now, limiter[l].window_seconds)
             kept == {k \in DOMAIN memory_store : pruned(k) # <<>>}
         IN  [k \in kept |-> pruned(k)]
    ELSE memory_store

\* had _check_memory_limit not pruned the key's list
MemoryUnpruned(l, key, current_time) ==
    LET store == CleanupMemoryStore(l)
    IN  IF key \in DOMAIN store THEN store[key] ELSE <<>>

\* the key's list after the sweep and the per-key prune of _check_memory_limit
MemoryPruned(l, key, current_time) ==
    LET store == CleanupMemoryStore(l)
    IN  PruneList(IF key \in DOMAIN store THEN store[key] ELSE <<>>,
                  current_time, limiter[l].window_seconds)

\* had _check_memory_limit compared with > as the Redis path does
MemoryLimitedStrict(l, key, current_time) ==
    Len(MemoryPruned(l, key, current_time)) > limiter[l].max_requests

\* the value _check_memory_limit returns
MemoryLimited(l, key, current_time) ==
    Len(MemoryPruned(l, key, current_time)) >= limiter[l].max_requests

\* had _check_memory_limit appended current_time before comparing
MemoryStoreAlwaysAppends(l, key, current_time) ==
    LET store == CleanupMemoryStore(l)
    IN  [k \in DOMAIN store \cup {key} |->
            IF k = key THEN Append(MemoryPruned(l, key, current_time), current_time)
            ELSE store[k]]

\* had _check_memory_limit inserted current_time at the head of the list
MemoryStorePrepends(l, key, current_time) ==
    LET store == CleanupMemoryStore(l)
        pruned == MemoryPruned(l, key, current_time)
    IN  [k \in DOMAIN store \cup {key} |->
            IF k = key
            THEN IF MemoryLimited(l, key, current_time) THEN pruned
                 ELSE <<current_time>> \o pruned
            ELSE store[k]]

\* _memory_store after _check_memory_limit
MemoryStoreAfter(l, key, current_time) ==
    LET store == CleanupMemoryStore(l)
        pruned == MemoryPruned(l, key, current_time)
    IN  [k \in DOMAIN store \cup {key} |->
            IF k = key
            THEN IF MemoryLimited(l, key, current_time) THEN pruned
                 ELSE Append(pruned, current_time)
            ELSE store[k]]

LastCleanupAfter(l) ==
    IF CleanupDue(l) THEN [last_cleanup EXCEPT ![l] = now] ELSE last_cleanup

(***************************************************************************)
(* Redis store: the Lua script of _check_redis_limit.                      *)
(***************************************************************************)
Members(key) == IF key \in DOMAIN zset THEN zset[key].members ELSE {}

\* had the script removed with an exclusive bound, "(" .. window_start
ScriptMembersExclusive(l, key, current_time) ==
    LET window_start == current_time - limiter[l].window_seconds
    IN  {s \in Members(key) : ~(0 <= s /\ s < window_start)} \cup {current_time}

\* ZREMRANGEBYSCORE key 0 window_start, then ZADD key current_time current_time.
\* Member and score are both the timestamp: equal timestamps are one member.
ScriptMembers(l, key, current_time) ==
    LET window_start == current_time - limiter[l].window_seconds
    IN  {s \in Members(key) : ~(0 <= s /\ s <= window_start)} \cup {current_time}

\* ZCARD key
ScriptCount(l, key, current_time) == Cardinality(ScriptMembers(l, key, current_time))

\* the store after the script, EXPIRE key (window_seconds + 10) included
ScriptZset(l, key, current_time) ==
    [k \in DOMAIN zset \cup {key} |->
        IF k = key
        THEN [members   |-> ScriptMembers(l, key, current_time),
              expire_at |-> now + limiter[l].window_seconds + ExpiryBuffer]
        ELSE zset[k]]

\* return int(request_count) > self.max_requests
RedisLimited(l, key, current_time) ==
    ScriptCount(l, key, current_time) > limiter[l].max_requests

(***************************************************************************)
(* What the dependency hands to the protected operation.                   *)
(***************************************************************************)
\* HTTP status of the dependency: 429 when limited, else the request proceeds
Status(limited) == IF limited THEN "429" ELSE "ok"

\* had the header carried the default window of AsyncRateLimiter.__init__
RetryAfterDefault(l, limited) == IF limited THEN 60 ELSE 0

\* headers={"Retry-After": str(window_seconds)}, 0 standing for no header
RetryAfter(l, limited) == IF limited THEN limiter[l].window_seconds ELSE 0

\* had the except clause of _check_redis_limit re-raised
ByMemoryRaising(r, failed) ==
    LET limited == ~failed /\ MemoryLimited(r.lim, r.key, r.current_time)
    IN  [r EXCEPT !.pc = "done", !.deadline = 0,
                  !.backend = IF failed THEN "none" ELSE "memory",
                  !.limited = limited, !.failed = failed,
                  !.status = IF failed THEN "error" ELSE Status(limited),
                  !.retry_after = RetryAfter(r.lim, limited),
                  !.order = decided + 1, !.stale = now # r.current_time]

\* the request record once _check_memory_limit has returned
ByMemory(r, failed) ==
    LET limited == MemoryLimited(r.lim, r.key, r.current_time)
    IN  [r EXCEPT !.pc = "done", !.deadline = 0, !.backend = "memory",
                  !.limited = limited, !.failed = failed,
                  !.status = Status(limited),
                  !.retry_after = RetryAfter(r.lim, limited),
                  !.order = decided + 1, !.stale = now # r.current_time]

\* the request record once the script's reply has been compared with max_requests
ByRedis(r) ==
    LET limited == RedisLimited(r.lim, r.key, r.current_time)
    IN  [r EXCEPT !.pc = "done", !.deadline = 0, !.backend = "redis",
                  !.limited = limited,
                  !.status = Status(limited),
                  !.retry_after = RetryAfter(r.lim, limited),
                  !.order = decided + 1, !.stale = now # r.current_time]

InFlight == {i \in 1..Len(reqs) : reqs[i].pc # "done"}

Faults == Cardinality({i \in 1..Len(reqs) : reqs[i].failed})

MayAwait == Cardinality(InFlight) < limits.inflight

NewRequest(l, c) ==
    [lim |-> l, ctx |-> c, key |-> StoreKey(ClientId(l, c)), current_time |-> now,
     pc |-> "start", deadline |-> 0, backend |-> "none", limited |-> FALSE,
     failed |-> FALSE, pinged |-> FALSE, evaled |-> FALSE,
     status |-> "pending", retry_after |-> 0, order |-> 0, stale |-> FALSE,
     seen_failure |-> last_failure, seen_event |-> breaker_event,
     after_reset |-> reset_fresh]

(***************************************************************************)
(* Actions.                                                                *)
(***************************************************************************)
\* _check_memory_limit as the last step of evaluation i of `rs`
FallBack(rs, i, failed) ==
    /\ reqs' = [rs EXCEPT ![i] = ByMemory(rs[i], failed)]
    /\ memory_store' = MemoryStoreAfter(rs[i].lim, rs[i].key, rs[i].current_time)
    /\ last_cleanup' = LastCleanupAfter(rs[i].lim)
    /\ decided' = decided + 1

\* had get_redis_client not looked at settings.redis_url
ClientAvailableWithoutUrl == redis_installed

\* get_redis_client has a client to create: the driver imports and
\* settings.redis_url is set
ClientAvailable == redis_installed /\ redis_url

\* evaluation i of `rs` suspends in an awaited Redis call
Await(rs, i, call) ==
    /\ reqs' = [rs EXCEPT ![i] = [@ EXCEPT !.pc = call,
                                           !.deadline = now + socket_timeout,
                                           !.pinged = @ \/ call = "ping",
                                           !.evaled = @ \/ call = "eval"]]
    /\ UNCHANGED <<memory_store, last_cleanup, decided>>

\* check_rate_limit up to its first suspension.  get_redis_client returns at
\* once unless it has a client to create; the task then awaits ping or eval.
StartEvaluation(l, c) ==
    /\ Len(reqs) < limits.req
    /\ LET rs == Append(reqs, NewRequest(l, c))
           i == Len(reqs) + 1
       IN  IF ~redis_healthy
           THEN /\ FallBack(rs, i, FALSE)
                /\ UNCHANGED <<redis_client, redis_healthy>>
           ELSE IF redis_client = "None" /\ ~ClientAvailable
           THEN /\ redis_client' = "False"
                /\ redis_healthy' = FALSE
                /\ FallBack(rs, i, FALSE)
           ELSE IF redis_client = "None"
           THEN /\ MayAwait
                /\ redis_client' = "Client"
                /\ Await(rs, i, "ping")
                /\ UNCHANGED redis_healthy
           ELSE IF redis_client = "False"
           THEN /\ FallBack(rs, i, FALSE)
                /\ UNCHANGED <<redis_client, redis_healthy>>
           ELSE /\ MayAwait
                /\ Await(rs, i, "eval")
                /\ UNCHANGED <<redis_client, redis_healthy>>
    /\ breaker_event' = IF redis_healthy /\ ~redis_healthy' THEN "unavailable"
                         ELSE breaker_event
    /\ reset_fresh' = FALSE
    /\ UNCHANGED <<now, ticks, env, zset, recovery, last_failure>>

\* `await _redis_client.ping()` returns: _redis_healthy = True, and the global
\* _redis_client, as it is by now, decides between eval and the fallback.
PingOk(i) ==
    /\ i \in InFlight /\ reqs[i].pc = "ping"
    /\ redis_healthy' = TRUE
    /\ IF redis_client = "Client"
       THEN Await(reqs, i, "eval")
       ELSE FallBack(reqs, i, FALSE)
    /\ breaker_event' = "probe"
    /\ UNCHANGED <<now, ticks, env, redis_client, zset, recovery, last_failure,
                   reset_fresh>>

\* `await _redis_client.ping()` raises (refused, timed out)
PingFail(i) ==
    /\ i \in InFlight /\ reqs[i].pc = "ping"
    /\ Faults < limits.faults
    /\ redis_client' = "False"
    /\ redis_healthy' = FALSE
    /\ last_failure' = now
    /\ breaker_event' = "ping_failed"
    /\ FallBack(reqs, i, TRUE)
    /\ UNCHANGED <<now, ticks, env, zset, recovery, reset_fresh>>

\* `await redis.eval(...)` returns the count
EvalOk(i) ==
    /\ i \in InFlight /\ reqs[i].pc = "eval"
    /\ zset' = ScriptZset(reqs[i].lim, reqs[i].key, reqs[i].current_time)
    /\ reqs' = [reqs EXCEPT ![i] = ByRedis(reqs[i])]
    /\ decided' = decided + 1
    /\ UNCHANGED <<now, ticks, env, last_cleanup, memory_store, redis_client,
                   redis_healthy, recovery, last_failure, breaker_event,
                   reset_fresh>>

\* `await redis.eval(...)` or int(request_count) raises.  The script has run
\* (reply lost, timed out or malformed) or has not (connection error).
EvalFail(i, executed) ==
    /\ i \in InFlight /\ reqs[i].pc = "eval"
    /\ Faults < limits.faults
    /\ zset' = IF executed
               THEN ScriptZset(reqs[i].lim, reqs[i].key, reqs[i].current_time)
               ELSE zset
    /\ redis_healthy' = FALSE
    /\ recovery' = Append(recovery, now + RecoveryDelay)
    /\ last_failure' = now
    /\ breaker_event' = "eval_failed"
    /\ FallBack(reqs, i, TRUE)
    /\ UNCHANGED <<now, ticks, env, redis_client, reset_fresh>>

\* a _schedule_redis_recovery task wakes up and awaits reset_redis_health
RecoveryFire ==
    /\ recovery # <<>> /\ Head(recovery) <= now
    /\ redis_healthy' = TRUE
    /\ redis_client' = "None"
    /\ recovery' = Tail(recovery)
    /\ breaker_event' = "reset"
    /\ reset_fresh' = TRUE
    /\ UNCHANGED <<now, ticks, env, last_cleanup, memory_store, zset, reqs,
                   decided, last_failure>>

\* wake-up times of sleeping recoveries and time-outs of awaited calls
Timers ==
    {recovery[j] : j \in DOMAIN recovery} \cup {reqs[i].deadline : i \in InFlight}

\* The clock advances by d, or up to the next timer if that comes first; no
\* timer is overslept.  Redis drops the keys whose expiry has been reached.
Tick(d) ==
    /\ ticks < limits.ticks
    /\ \A t \in Timers : t > now
    /\ now' = Min({now + d} \cup Timers)
    /\ ticks' = ticks + 1
    /\ zset' = [k \in {k \in DOMAIN zset : zset[k].expire_at > now'} |-> zset[k]]
    /\ UNCHANGED <<env, last_cleanup, memory_store, redis_client, redis_healthy,
                   recovery, reqs, decided, last_failure, breaker_event, reset_fresh>>

(***************************************************************************)
(* Initial states.                                                         *)
(***************************************************************************)
Policy(kind, max_requests, window_seconds) ==
    [kind |-> kind, max_requests |-> max_requests, window_seconds |-> window_seconds]

Context(forwarded_for, has_client, client_host, has_user, user_id) ==
    [forwarded_for |-> forwarded_for, has_client |-> has_client,
     client_host |-> client_host, has_user |-> has_user, user_id |-> user_id]

\* a direct caller, and a caller behind a proxy
Direct == Context(<<>>, TRUE, <<"10.0.0.1">>, FALSE, <<>>)
Proxied == Context(<<"10.0.0.2", ",", " ", "10.0.0.9">>, TRUE, <<"10.0.0.9">>, FALSE, <<>>)

\* no request.client; an authenticated caller; one behind a proxy whose header
\* is padded; a header whose first value is blank
Anonymous == Context(<<>>, FALSE, <<>>, FALSE, <<>>)
Member == Context(<<>>, TRUE, <<"10.0.0.1">>, TRUE, <<"7">>)
ProxiedMember == Context(<<" ", "10.0.0.2", " ", ",", "10.0.0.9">>, FALSE, <<>>, TRUE, <<"7">>)
Blank == Context(<<" ", ",", "10.0.0.9">>, TRUE, <<"10.0.0.9">>, FALSE, <<>>)

\* an unauthenticated caller whose forwarded-for header reads user:7
Forged == Context(<<"user", ":", "7">>, TRUE, <<"10.0.0.66">>, FALSE, <<>>)

\* the state of the module once imported and its limiters constructed
Constructed ==
    /\ now = StartTime
    /\ ticks = 0
    /\ redis_url \in BOOLEAN
    /\ redis_installed \in BOOLEAN
    /\ last_cleanup = [l \in DOMAIN limiter |-> 0]
    /\ memory_store = <<>>
    /\ redis_client = "None"
    /\ redis_healthy = TRUE
    /\ zset = <<>>
    /\ recovery = <<>>
    /\ reqs = <<>>
    /\ decided = 0
    /\ last_failure = -1
    /\ breaker_event = "none"
    /\ reset_fresh = FALSE

Limits(req, inflight, nticks, faults) ==
    [req |-> req, inflight |-> inflight, ticks |-> nticks, faults |-> faults]

\* two differently configured limiters with short windows
Init ==
    /\ limiter = <<Policy("ip", 1, 3), Policy("ip", 2, 2)>>
    /\ contexts = {Direct}
    /\ gaps = {1, RecoveryDelay - 1}
    /\ limits = Limits(MaxReq, MaxInFlight, MaxTicks, MaxFaults)
    /\ Constructed

\* one limiter used alone by one caller, its calls one at a time: the 3 per
\* 60 s policy of the documented scenario, or a 1 per 3 s policy
InitAlone ==
    /\ \E e \in {<<Policy("ip", 3, 60), {1, 58}>>, <<Policy("ip", 1, 3), {1, 2}>>} :
           limiter = <<e[1]>> /\ gaps = e[2]
    /\ contexts = {Direct}
    /\ limits = Limits(AloneReq, AloneInFlight, AloneTicks, AloneFaults)
    /\ Constructed
    /\ redis_installed

\* one limiter and a reachable Redis: the breaker and its recoveries
InitBreaker ==
    /\ limiter = <<Policy("ip", 1, 3)>>
    /\ contexts = {Direct}
    /\ gaps = {1, RecoveryDelay - 1}
    /\ limits = Limits(BreakerReq, MaxInFlight, MaxTicks, MaxFaults)
    /\ Constructed
    /\ redis_url /\ redis_installed

\* an IP limiter and the user limiter, and callers of every kind
InitKeys ==
    /\ limiter = <<Policy("ip", 1, 3), Policy("user", 1, 3)>>
    /\ contexts = {Direct, Proxied, Anonymous, Member, ProxiedMember, Blank, Forged}
    /\ gaps = {RecoveryDelay}
    /\ limits = Limits(KeysReq, KeysInFlight, KeysTicks, KeysFaults)
    /\ Constructed

\* two limiters whose windows differ by more than the expiry buffer, two
\* callers, and clock advances that idle a key and that let a limiter sweep again
InitSweep ==
    /\ limiter = <<Policy("ip", 1, 1), Policy("ip", 1, ExpiryBuffer + 3)>>
    /\ contexts = {Direct, Anonymous}
    /\ gaps = {2, cleanup_interval + 1}
    /\ limits = Limits(SweepReq, SweepInFlight, SweepTicks, SweepFaults)
    /\ Constructed

\* one limiter with two slots and a reachable Redis, its calls overlapping
InitRace ==
    /\ limiter = <<Policy("ip", 2, 3)>>
    /\ contexts = {Direct}
    /\ gaps = {1, 2, RecoveryDelay}
    /\ limits = Limits(RaceReq, RaceInFlight, RaceTicks, RaceFaults)
    /\ Constructed
    /\ redis_url /\ redis_installed

\* one limiter and a reachable Redis, the clock advancing by the recovery delay
InitProbe ==
    /\ limiter = <<Policy("ip", 1, 3)>>
    /\ contexts = {Direct}
    /\ gaps = {RecoveryDelay}
    /\ limits = Limits(ProbeReq, ProbeInFlight, ProbeTicks, ProbeFaults)
    /\ Constructed
    /\ redis_url /\ redis_installed

\* one limiter and a reachable Redis; the clock moves from timer to timer, or
\* from the recovery to ten seconds before the second sweep falls due
InitStale ==
    /\ limiter = <<Policy("ip", 1, 2 * socket_timeout + 1)>>
    /\ contexts = {Direct}
    /\ gaps = {cleanup_interval - RecoveryDelay - 2 * socket_timeout}
    /\ limits = Limits(StaleReq, StaleInFlight, StaleTicks, StaleFaults)
    /\ Constructed
    /\ redis_url /\ redis_installed

Next ==
    \/ \E l \in DOMAIN limiter, c \in contexts : StartEvaluation(l, c)
    \/ \E i \in DOMAIN reqs : PingOk(i)
    \/ \E i \in DOMAIN reqs : PingFail(i)
    \/ \E i \in DOMAIN reqs : EvalOk(i)
    \/ \E i \in DOMAIN reqs, executed \in BOOLEAN : EvalFail(i, executed)
    \/ RecoveryFire
    \/ \E d \in gaps : Tick(d)

Spec == Init /\ [][Next]_vars
SpecAlone == InitAlone /\ [][Next]_vars
SpecBreaker == InitBreaker /\ [][Next]_vars
SpecKeys == InitKeys /\ [][Next]_vars
SpecSweep == InitSweep /\ [][Next]_vars
SpecRace == InitRace /\ [][Next]_vars
SpecProbe == InitProbe /\ [][Next]_vars
SpecStale == InitStale /\ [][Next]_vars

(***************************************************************************)
(* Vocabulary of the properties.                                           *)
(***************************************************************************)
All == 1..Len(reqs)
Done(i) == reqs[i].pc = "done"
Backends == {"redis", "memory"}
MaxOf(S) == CHOOSE x \in S : \A y \in S : y <= x

\* limiter l is the only one used, and backend b has decided every evaluation
Alone(l, b) == \A i \in All : reqs[i].lim = l /\ Done(i) /\ reqs[i].backend = b

\* the evaluations of key k decided no later than evaluation i, i included
UpTo(k, i) == {j \in All : reqs[j].key = k /\ reqs[j].order <= reqs[i].order}

\* width of the time interval that holds the timestamps of the evaluations in S
Span(S) == MaxOf({reqs[j].current_time : j \in S}) - Min({reqs[j].current_time : j \in S})

(***************************************************************************)
(* C1.  One policy used alone, one key, one backend: the first             *)
(* max_requests evaluations are allowed, and evaluation max_requests + 1   *)
(* is denied when it falls in the same window as the ones before it.       *)
(***************************************************************************)
C1_FirstWindow ==
    \A l \in DOMAIN limiter, b \in Backends :
        Alone(l, b) =>
            \A i \in All :
                LET first == UpTo(reqs[i].key, i)
                    m == limiter[l].max_requests
                IN  /\ Cardinality(first) <= m => ~reqs[i].limited
                    /\ (Cardinality(first) = m + 1 /\
                        Span(first) < limiter[l].window_seconds) => reqs[i].limited

(***************************************************************************)
(* C2.  Client keys are unique per (policy, caller): evaluations of two    *)
(* different limiters never use the same store key.                        *)
(***************************************************************************)
C2_KeyPerPolicy ==
    \A i, j \in All : reqs[i].lim # reqs[j].lim => reqs[i].key # reqs[j].key

(***************************************************************************)
(* C3.  An evaluation that starts less than RecoveryDelay after the most   *)
(* recent failure of a Redis call issues no Redis call and is decided by   *)
(* the memory store.                                                       *)
(***************************************************************************)
C3_QuietUntilRecovery ==
    \A i \in All :
        (reqs[i].seen_failure >= 0 /\
         reqs[i].current_time < reqs[i].seen_failure + RecoveryDelay) =>
            /\ ~reqs[i].pinged /\ ~reqs[i].evaled
            /\ Done(i) => reqs[i].backend = "memory"

(***************************************************************************)
(* C4.  While the last thing that happened to the breaker is a failed      *)
(* redis.eval, a recovery is pending and due RecoveryDelay after that      *)
(* failure; and the first evaluation that starts after a reset creates the *)
(* connection again and probes Redis.                                      *)
(***************************************************************************)
C4_ResetThenRetry ==
    /\ breaker_event = "eval_failed" =>
            /\ ~redis_healthy
            /\ recovery # <<>>
            /\ recovery[Len(recovery)] = last_failure + RecoveryDelay
            /\ \A j \in DOMAIN recovery : recovery[j] >= now
    /\ \A i \in All : reqs[i].after_reset => reqs[i].pinged

\* evaluation i returns in this step
Returns(i) ==
    /\ i \in DOMAIN reqs' /\ reqs'[i].pc = "done"
    /\ i \in DOMAIN reqs => reqs[i].pc # "done"

\* the key's list in _memory_store before the step, [] when the key is absent
OldList(key) == IF key \in DOMAIN memory_store THEN memory_store[key] ELSE <<>>

Occurrences(list, x) == Cardinality({n \in DOMAIN list : list[n] = x})

(***************************************************************************)
(* C5.  An evaluation never hands a system error to the protected          *)
(* operation: it ends allowed or rejected.  When its Redis call failed,    *)
(* the decision is the memory store's: limited exactly when the key's list *)
(* holds max_requests records that survive the sweep and the prune.        *)
(***************************************************************************)
C5_AlwaysDecides ==
    [][\A i \in DOMAIN reqs' :
         LET r == reqs'[i]
             window == limiter[r.lim].window_seconds
             old == OldList(r.key)
             kept == {n \in DOMAIN old :
                        /\ r.current_time - old[n] < window
                        /\ CleanupDue(r.lim) => now - old[n] < window}
         IN  /\ r.status # "error"
             /\ r.pc = "done" => r.status \in {"ok", "429"}
             /\ (Returns(i) /\ ~redis_installed) => r.backend = "memory"
             /\ (Returns(i) /\ r.failed) =>
                    /\ r.backend = "memory"
                    /\ r.limited = (Cardinality(kept) >= limiter[r.lim].max_requests)
                    /\ r.status = IF r.limited THEN "429" ELSE "ok"]_vars

\* a failed redis.eval whose evaluation the memory store then denied
C5_Witness ==
    \E i \in All : Done(i) /\ reqs[i].failed /\ reqs[i].evaled /\ reqs[i].limited

(***************************************************************************)
(* C6 as stated.  One policy alone, one backend, evaluations decided when  *)
(* and in the order they are made: an evaluation is allowed as soon as     *)
(* fewer than max_requests allowed evaluations of its key are at most      *)
(* window_seconds old, on Redis as on the memory store.                    *)
(***************************************************************************)
InOrder == \A i \in All : Done(i) /\ ~reqs[i].stale /\ reqs[i].order = i

Earlier(i) == {j \in All : reqs[j].key = reqs[i].key /\ reqs[j].order < reqs[i].order}

Age(i, j) == reqs[i].current_time - reqs[j].current_time

C6_SlotFreed ==
    \A l \in DOMAIN limiter, b \in Backends :
        (Alone(l, b) /\ InOrder) =>
            \A i \in All :
                Cardinality({j \in Earlier(i) :
                                ~reqs[j].limited /\
                                Age(i, j) <= limiter[l].window_seconds})
                    < limiter[l].max_requests
                => ~reqs[i].limited

(***************************************************************************)
(* C6 amended.  Same setting.  On the memory store an evaluation is denied *)
(* exactly when max_requests allowed evaluations of its key are less than  *)
(* window_seconds old.  On Redis it is denied exactly when more than       *)
(* max_requests distinct timestamps of evaluations of its key, allowed or  *)
(* denied, its own included, are less than window_seconds old: a denied    *)
(* evaluation holds a slot until it ages out.  No older record counts.     *)
(***************************************************************************)
C6_SlidingWindow ==
    \A l \in DOMAIN limiter :
        LET window == limiter[l].window_seconds
            m == limiter[l].max_requests
        IN  /\ (Alone(l, "memory") /\ InOrder) =>
                    \A i \in All :
                        reqs[i].limited <=>
                            Cardinality({j \in Earlier(i) :
                                ~reqs[j].limited /\ Age(i, j) < window}) >= m
            /\ (Alone(l, "redis") /\ InOrder) =>
                    \A i \in All :
                        reqs[i].limited <=>
                            Cardinality({reqs[j].current_time :
                                j \in {j \in Earlier(i) \cup {i} : Age(i, j) < window}}) > m

\* Redis still denies a key whose only allowed evaluation has aged out
C6_Witness ==
    \E l \in DOMAIN limiter :
        /\ Alone(l, "redis") /\ InOrder
        /\ \E i \in All :
              /\ reqs[i].limited
              /\ \E j \in Earlier(i) : ~reqs[j].limited
              /\ \A j \in Earlier(i) :
                    ~reqs[j].limited => Age(i, j) > limiter[l].window_seconds

(***************************************************************************)
(* C7.  max_requests = 3, window_seconds = 60, one key, one backend:       *)
(* evaluations at t = 0, 1, 2 are allowed, the one at t = 3 is rejected    *)
(* with Retry-After 60, the one at t = 61 is allowed.                      *)
(***************************************************************************)
ScenarioTimes == <<0, 1, 2, 3, 61>>
ScenarioLimited == <<FALSE, FALSE, FALSE, TRUE, FALSE>>

FollowsScenario(i) ==
    /\ i <= Len(ScenarioTimes)
    /\ \A j \in 1..i : reqs[j].current_time = reqs[1].current_time + ScenarioTimes[j]

C7_Scenario ==
    \A b \in Backends :
        (limiter = <<Policy("ip", 3, 60)>> /\ Alone(1, b) /\ InOrder) =>
            \A i \in All :
                FollowsScenario(i) =>
                    /\ reqs[i].limited = ScenarioLimited[i]
                    /\ reqs[i].status = IF ScenarioLimited[i] THEN "429" ELSE "ok"
                    /\ reqs[i].retry_after = IF ScenarioLimited[i] THEN 60 ELSE 0

\* the whole scenario has run against Redis
C7_Witness ==
    /\ limiter = <<Policy("ip", 3, 60)>> /\ Alone(1, "redis") /\ InOrder
    /\ Len(reqs) = Len(ScenarioTimes) /\ FollowsScenario(Len(reqs))

(***************************************************************************)
(* C8.  A rejected evaluation decided by Redis is in the key's sorted set  *)
(* afterwards, which then holds more than max_requests members; a rejected *)
(* evaluation decided by the memory store adds nothing to the key's list,  *)
(* which only loses pruned records.                                        *)
(***************************************************************************)
C8_Asymmetry ==
    [][\A i \in DOMAIN reqs' :
         (Returns(i) /\ reqs'[i].limited) =>
            LET r == reqs'[i]
            IN  IF r.backend = "redis"
                THEN /\ r.key \in DOMAIN zset'
                     /\ r.current_time \in zset'[r.key].members
                     /\ Cardinality(zset'[r.key].members) > limiter[r.lim].max_requests
                ELSE /\ r.key \in DOMAIN memory_store'
                     /\ Len(memory_store'[r.key]) <= Len(OldList(r.key))
                     /\ \A n \in DOMAIN memory_store'[r.key] :
                            Occurrences(memory_store'[r.key], memory_store'[r.key][n])
                                <= Occurrences(OldList(r.key), memory_store'[r.key][n])]_vars

\* one evaluation rejected by Redis and one rejected by the memory store
C8_Witness ==
    \E i, j \in All :
        /\ Done(i) /\ reqs[i].limited /\ reqs[i].backend = "redis"
        /\ Done(j) /\ reqs[j].limited /\ reqs[j].backend = "memory"

(***************************************************************************)
(* C9.  Without settings.redis_url the first evaluation marks Redis        *)
(* unhealthy and disabled, and it stays so: no recovery is ever pending,   *)
(* no evaluation pings or calls Redis, the memory store decides them all.  *)
(***************************************************************************)
C9_NoUrlFallbackOnly ==
    ~redis_url =>
        /\ recovery = <<>>
        /\ zset = <<>>
        /\ \A i \in All :
              /\ ~reqs[i].pinged /\ ~reqs[i].evaled
              /\ Done(i) /\ reqs[i].backend = "memory"
        /\ reqs # <<>> => ~redis_healthy /\ redis_client = "False"

\* no URL, the driver installed, and evaluations made more than
\* RecoveryDelay after the first one
C9_Witness ==
    /\ ~redis_url /\ redis_installed
    /\ \E i \in All : reqs[i].current_time > reqs[1].current_time + RecoveryDelay

(***************************************************************************)
(* C10.  A rejected evaluation carries Retry-After = window_seconds of its *)
(* limiter, whenever a slot would free; an allowed one is not rejected and *)
(* carries no Retry-After.                                                 *)
(***************************************************************************)
C10_RetryAfterIsWindow ==
    \A i \in All :
        Done(i) =>
            IF reqs[i].limited
            THEN /\ reqs[i].status = "429"
                 /\ reqs[i].retry_after = limiter[reqs[i].lim].window_seconds
            ELSE /\ reqs[i].status = "ok"
                 /\ reqs[i].retry_after = 0

\* rejections by both backends, one of them when the slot frees sooner than
\* window_seconds from now
C10_Witness ==
    \E i, j, k \in All :
        /\ Done(i) /\ reqs[i].limited /\ reqs[i].backend = "redis"
        /\ Done(j) /\ reqs[j].limited /\ reqs[j].backend = "memory"
        /\ Done(k) /\ ~reqs[k].limited /\ reqs[k].key = reqs[j].key
        /\ reqs[k].current_time < reqs[j].current_time

\* the first comma-separated value of header h, blanks around it dropped
FirstValue(h) ==
    LET commas == {n \in DOMAIN h : h[n] = ","}
        raw == SubSeq(h, 1, IF commas = {} THEN Len(h) ELSE Min(commas) - 1)
        solid == {n \in DOMAIN raw : raw[n] # " "}
    IN  IF solid = {} THEN <<>> ELSE SubSeq(raw, Min(solid), MaxOf(solid))

\* the caller's address: header first, then the remote address, then unknown
Address(c) ==
    IF c.forwarded_for # <<>> THEN FirstValue(c.forwarded_for)
    ELSE IF c.has_client THEN c.client_host ELSE <<"unknown">>

EndsWith(s, suffix) ==
    Len(s) >= Len(suffix) /\ SubSeq(s, Len(s) - Len(suffix) + 1, Len(s)) = suffix

StartsWith(s, prefix) ==
    Len(s) >= Len(prefix) /\ SubSeq(s, 1, Len(prefix)) = prefix

(***************************************************************************)
(* C11 as stated.  Under every limiter the key names the authenticated     *)
(* principal, user:<id>, when there is one, and the caller's address       *)
(* otherwise.                                                              *)
(***************************************************************************)
C11_Precedence ==
    \A i \in All :
        LET c == reqs[i].ctx
        IN  IF c.has_user
            THEN EndsWith(reqs[i].key, <<":", "user", ":">> \o c.user_id)
            ELSE EndsWith(reqs[i].key, <<":">> \o Address(c))

(***************************************************************************)
(* C11 amended.  Resolution always yields a key.  The user limiter names   *)
(* the authenticated principal, user:<id>, when there is one.  It names    *)
(* the caller's address otherwise, and the IP limiters always do, whether  *)
(* a principal is authenticated or not: the first comma-separated value of *)
(* a non-empty forwarded-for header, stripped, else the remote address,    *)
(* else unknown.                                                           *)
(***************************************************************************)
C11_Resolution ==
    \A i \in All :
        LET c == reqs[i].ctx
        IN  /\ reqs[i].key # <<>>
            /\ IF limiter[reqs[i].lim].kind = "user" /\ c.has_user
               THEN EndsWith(reqs[i].key, <<":", "user", ":">> \o c.user_id)
               ELSE EndsWith(reqs[i].key, <<":">> \o Address(c))

\* an authenticated caller behind a proxy under the IP limiter and under the
\* user limiter
C11_Witness ==
    \E i, j \in All :
        /\ reqs[i].ctx = ProxiedMember /\ limiter[reqs[i].lim].kind = "ip"
        /\ reqs[j].ctx = ProxiedMember /\ limiter[reqs[j].lim].kind = "user"

(***************************************************************************)
(* C12 as stated.  Every key is rate_limit:<scope>:<identifier>, the scope *)
(* being user with an authenticated principal and ip without.              *)
(***************************************************************************)
Scope(c) == IF c.has_user THEN "user" ELSE "ip"

C12_ScopedKey ==
    \A i \in All :
        /\ StartsWith(reqs[i].key, <<"rate_limit", ":", Scope(reqs[i].ctx), ":">>)
        /\ Len(reqs[i].key) > 4

(***************************************************************************)
(* C12 amended.  Every key of the user limiter is                          *)
(* rate_limit:<scope>:<identifier>, the scope being user with an           *)
(* authenticated principal and ip without.  Every key of an IP limiter is  *)
(* rate_limit:<address>, with no scope.                                    *)
(***************************************************************************)
C12_KeyForm ==
    \A i \in All :
        LET c == reqs[i].ctx
        IN  IF limiter[reqs[i].lim].kind = "user"
            THEN /\ StartsWith(reqs[i].key, <<"rate_limit", ":", Scope(c), ":">>)
                 /\ Len(reqs[i].key) =
                        4 + Len(IF c.has_user THEN c.user_id ELSE Address(c))
            ELSE /\ StartsWith(reqs[i].key, <<"rate_limit", ":">>)
                 /\ Len(reqs[i].key) = 2 + Len(Address(c))

\* a key of each form: IP limiter, user limiter with and without a principal
C12_Witness ==
    \E i, j \in All :
        /\ limiter[reqs[i].lim].kind = "ip" /\ Done(i)
        /\ limiter[reqs[j].lim].kind = "user" /\ Done(j)
        /\ reqs[i].ctx.has_user # reqs[j].ctx.has_user

(***************************************************************************)
(* C13.  With one policy in use, whatever the interleaving of the          *)
(* evaluations that end in the memory store: each one prunes, compares and *)
(* appends in one step, against the list the previous one left.  It is     *)
(* denied exactly when max_requests records survive the sweep and the      *)
(* prune, else its timestamp is appended to the survivors; no list ever    *)
(* holds more than max_requests records.                                   *)
(***************************************************************************)
C13_AtomicFallback ==
    [][\A l \in DOMAIN limiter :
         (\A i \in DOMAIN reqs' : reqs'[i].lim = l) =>
            /\ \A k \in DOMAIN memory_store' :
                  Len(memory_store'[k]) <= limiter[l].max_requests
            /\ \A i \in DOMAIN reqs' :
                  (Returns(i) /\ reqs'[i].backend = "memory") =>
                     LET r == reqs'[i]
                         old == OldList(r.key)
                         new == memory_store'[r.key]
                         kept == {n \in DOMAIN old :
                                    /\ r.current_time - old[n] < limiter[l].window_seconds
                                    /\ CleanupDue(l) =>
                                          now - old[n] < limiter[l].window_seconds}
                     IN  /\ r.limited = (Cardinality(kept) >= limiter[l].max_requests)
                         /\ Len(new) = Cardinality(kept) + IF r.limited THEN 0 ELSE 1
                         /\ ~r.limited => new[Len(new)] = r.current_time]_vars

\* two evaluations suspended in Redis at once both fell back and took the two
\* slots of a key; a third was denied
C13_Witness ==
    \E i, j, k \in All :
        /\ i # j /\ \A n \in All : reqs[n].lim = reqs[i].lim
        /\ Done(i) /\ reqs[i].failed /\ ~reqs[i].limited
        /\ Done(j) /\ reqs[j].failed /\ ~reqs[j].limited
        /\ reqs[j].evaled /\ reqs[i].order > reqs[j].order
        /\ reqs[i].seen_failure = reqs[j].seen_failure
        /\ Done(k) /\ reqs[k].backend = "memory" /\ reqs[k].limited
        /\ reqs[i].key = reqs[j].key /\ reqs[j].key = reqs[k].key

\* the evaluations Redis allowed whose record the key's sorted set still holds
AllowedInSet(key) ==
    {i \in All : /\ Done(i) /\ reqs[i].backend = "redis" /\ reqs[i].key = key
                 /\ ~reqs[i].limited
                 /\ reqs[i].current_time \in Members(key)}

(***************************************************************************)
(* C14.  With one policy in use, the evaluations Redis decides for a key   *)
(* take its slots one at a time, however they overlap: of the evaluations  *)
(* whose record is in the key's sorted set, at most max_requests were      *)
(* allowed.                                                                *)
(***************************************************************************)
C14_AtMostKAllowed ==
    \A l \in DOMAIN limiter :
        (\A i \in All : reqs[i].lim = l) =>
            \A key \in DOMAIN zset :
                Cardinality(AllowedInSet(key)) <= limiter[l].max_requests

(***************************************************************************)
(* C15.  At no time is more than one recovery task pending, and the last   *)
(* failed redis.eval has left exactly one.                                 *)
(***************************************************************************)
C15_SingleRecovery ==
    /\ Len(recovery) <= 1
    /\ breaker_event = "eval_failed" => Len(recovery) = 1

(***************************************************************************)
(* C16 as stated.  A record exactly window_seconds older than the          *)
(* evaluation's timestamp survives that evaluation's prune, in the memory  *)
(* store and in Redis.  (The sweep apart: it prunes against another clock.) *)
(***************************************************************************)
C16_BoundaryKept ==
    [][\A i \in DOMAIN reqs' :
         Returns(i) =>
            LET r == reqs'[i]
                edge == r.current_time - limiter[r.lim].window_seconds
            IN  /\ (r.backend = "memory" /\ ~CleanupDue(r.lim)) =>
                      Occurrences(memory_store'[r.key], edge)
                          >= Occurrences(OldList(r.key), edge)
                /\ (r.backend = "redis" /\ edge \in Members(r.key)) =>
                      edge \in zset'[r.key].members]_vars

(***************************************************************************)
(* C16 amended.  The window of an evaluation made at `now` is              *)
(* (now - window_seconds, now]: a record exactly window_seconds old is     *)
(* discarded by the memory prune and by the Redis prune alike and does not *)
(* count; every record the evaluation leaves behind is strictly newer, and *)
(* Redis keeps and counts every strictly newer member.                     *)
(***************************************************************************)
C16_BoundaryDiscarded ==
    [][\A i \in DOMAIN reqs' :
         Returns(i) =>
            LET r == reqs'[i]
                edge == r.current_time - limiter[r.lim].window_seconds
                newer == {s \in Members(r.key) \cup {r.current_time} : s > edge}
            IN  /\ r.backend = "memory" =>
                      /\ \A n \in DOMAIN memory_store'[r.key] :
                            memory_store'[r.key][n] > edge
                      /\ \A n \in DOMAIN OldList(r.key) :
                            (OldList(r.key)[n] > edge /\ ~CleanupDue(r.lim)) =>
                                Occurrences(memory_store'[r.key], OldList(r.key)[n])
                                    >= Occurrences(OldList(r.key), OldList(r.key)[n])
                /\ r.backend = "redis" =>
                      /\ zset'[r.key].members = newer
                      /\ r.limited = (Cardinality(newer) > limiter[r.lim].max_requests)]_vars

\* a key that had reached its limit is admitted exactly window_seconds after
\* the request that filled it
C16_Witness ==
    \E l \in DOMAIN limiter, b \in Backends :
        /\ Alone(l, b) /\ InOrder /\ limiter[l].max_requests = 1
        /\ \E i, j \in All :
              /\ j \in Earlier(i)
              /\ ~reqs[j].limited /\ ~reqs[i].limited
              /\ Age(i, j) = limiter[l].window_seconds

\* the evaluations of a key, and the longest window among their policies
Users(key) == {i \in All : reqs[i].key = key}

LastActivity(key) == MaxOf({reqs[i].current_time : i \in Users(key)})

LongestWindow(key) == MaxOf({limiter[reqs[i].lim].window_seconds : i \in Users(key)})

(***************************************************************************)
(* C17.  A key whose evaluations were all decided when they were made is   *)
(* gone from the memory store once some limiter has swept more than        *)
(* window_seconds, of the policy that recorded it, after its last one.     *)
(***************************************************************************)
C17_SweptAfterIdle ==
    \A key \in DOMAIN memory_store, l \in DOMAIN limiter :
        ~ /\ \A i \in Users(key) : Done(i) /\ ~reqs[i].stale
          /\ last_cleanup[l] - LastActivity(key) > LongestWindow(key)

(***************************************************************************)
(* C18.  Any two sweeps of the memory store are more than cleanup_interval *)
(* apart, whichever limiters ran them.                                     *)
(***************************************************************************)
C18_OneSweepPerInterval ==
    \A l1, l2 \in DOMAIN limiter :
        (l1 # l2 /\ last_cleanup[l1] > 0 /\ last_cleanup[l2] >= last_cleanup[l1]) =>
            last_cleanup[l2] - last_cleanup[l1] > cleanup_interval

(***************************************************************************)
(* C19.  A key of Redis is gone once its expiry is reached, and the expiry *)
(* lies beyond the window of every evaluation recorded in the key: no      *)
(* record is evicted while the policy that recorded it still counts it.    *)
(***************************************************************************)
C19_ExpiryOutlivesWindow ==
    \A key \in DOMAIN zset :
        /\ zset[key].expire_at > now
        /\ \A i \in Users(key) :
              (Done(i) /\ reqs[i].backend = "redis"
                       /\ reqs[i].current_time \in zset[key].members) =>
                  zset[key].expire_at
                      >= reqs[i].current_time + limiter[reqs[i].lim].window_seconds

\* the allowed evaluations of i's key whose timestamps lie in i's window
AllowedInWindow(i) ==
    {j \in All : /\ Done(j) /\ reqs[j].key = reqs[i].key /\ ~reqs[j].limited
                 /\ 0 <= Age(i, j)
                 /\ Age(i, j) < limiter[reqs[i].lim].window_seconds}

DistinctTimestamps ==
    \A i, j \in All :
        (i # j /\ reqs[i].key = reqs[j].key) => reqs[i].current_time # reqs[j].current_time

(***************************************************************************)
(* C20.  While no Redis call has failed, a key is never over-admitted: an  *)
(* allowed evaluation has at most max_requests allowed evaluations, itself *)
(* included, in its window.  (Stated for evaluations whose timestamps      *)
(* differ, where Redis keeps one member for each.)                         *)
(***************************************************************************)
C20_OverAdmissionNeedsFailure ==
    (Faults = 0 /\ DistinctTimestamps) =>
        \A i \in All :
            (Done(i) /\ ~reqs[i].limited) =>
                Cardinality(AllowedInWindow(i)) <= limiter[reqs[i].lim].max_requests

(***************************************************************************)
(* C21.  Every key of the memory store holds at least one record, after    *)
(* every evaluation and every sweep.                                       *)
(***************************************************************************)
C21_NoEmptyKey ==
    \A key \in DOMAIN memory_store : memory_store[key] # <<>>

\* a sweep has deleted the key of an evaluation the memory store had recorded,
\* and another key is left
C21_Witness ==
    /\ memory_store # <<>>
    /\ \E i \in All :
          /\ Done(i) /\ reqs[i].backend = "memory" /\ ~reqs[i].limited
          /\ reqs[i].key \notin DOMAIN memory_store

Sorted(list) == \A m, n \in DOMAIN list : m < n => list[m] <= list[n]

(***************************************************************************)
(* C22 as stated.  The timestamps of every key's list in the memory store  *)
(* are in non-decreasing order, in every reachable state.                  *)
(***************************************************************************)
C22_Ordered ==
    \A key \in DOMAIN memory_store : Sorted(memory_store[key])

(***************************************************************************)
(* C22 amended.  A key's list holds its timestamps in the order in which   *)
(* the evaluations reached the memory store.  They are in non-decreasing   *)
(* order as long as every evaluation the memory store decided reached it   *)
(* at the time its timestamp was taken; an evaluation that took its        *)
(* timestamp before a slow, failing Redis call is appended behind later    *)
(* timestamps.                                                             *)
(***************************************************************************)
C22_OrderedUnlessStale ==
    (\A i \in All : (Done(i) /\ reqs[i].backend = "memory") => ~reqs[i].stale) =>
        \A key \in DOMAIN memory_store : Sorted(memory_store[key])

\* a list of two different timestamps, the second appended after a failed
\* Redis call that did not outlast its second
C22_Witness ==
    /\ \A i \in All : (Done(i) /\ reqs[i].backend = "memory") => ~reqs[i].stale
    /\ \E i \in All : Done(i) /\ reqs[i].failed /\ ~reqs[i].limited
          /\ reqs[i].key \in DOMAIN memory_store
          /\ LET list == memory_store[reqs[i].key]
             IN  Len(list) >= 2 /\ list[1] < list[Len(list)]
                  /\ list[Len(list)] = reqs[i].current_time

Records(key) ==
    IF key \in DOMAIN memory_store
    THEN {memory_store[key][n] : n \in DOMAIN memory_store[key]}
    ELSE {}

(***************************************************************************)
(* C23.  A record of the memory store is kept as long as it is inside the  *)
(* window of the policy that recorded it, whichever limiter sweeps: an     *)
(* allowed evaluation whose key is used by one policy only, and whose      *)
(* timestamp is less than that policy's window_seconds old, is in the      *)
(* key's list.                                                             *)
(***************************************************************************)
C23_SweepKeepsLiveRecords ==
    \A i \in All :
        ( /\ Done(i) /\ reqs[i].backend = "memory" /\ ~reqs[i].limited
          /\ now - reqs[i].current_time < limiter[reqs[i].lim].window_seconds
          /\ \A j \in Users(reqs[i].key) : reqs[j].lim = reqs[i].lim )
        => reqs[i].current_time \in Records(reqs[i].key)

\* a Redis call of an evaluation started on a fresh reset has failed, after a
\* script call had succeeded: Redis is configured and had been reached
FailedAfterReset ==
    \E i, j \in All :
        /\ Done(i) /\ reqs[i].failed /\ reqs[i].seen_event = "reset"
        /\ Done(j) /\ reqs[j].backend = "redis" /\ reqs[j].order < reqs[i].order

(***************************************************************************)
(* C24.  Once Redis has been reached, the breaker is never unhealthy       *)
(* without a recovery task pending, whether a script call failed or the    *)
(* connection probe made after a reset did.                                *)
(***************************************************************************)
C24_RecoveryPending ==
    (FailedAfterReset /\ ~redis_healthy) => recovery # <<>>

(***************************************************************************)
(* C25.  While _redis_healthy is True, _redis_client is None or a client,  *)
(* never False.                                                            *)
(***************************************************************************)
C25_HealthyHasClient ==
    redis_healthy => redis_client # "False"

\* the records of key k the script call of evaluation i leaves in place
Surviving(i) ==
    {s \in Members(reqs[i].key) :
        s > reqs[i].current_time - limiter[reqs[i].lim].window_seconds}

\* evaluation i is decided by Redis in this step
RedisDecides(i) ==
    /\ i \in DOMAIN reqs /\ reqs[i].pc = "eval"
    /\ reqs'[i].pc = "done" /\ reqs'[i].backend = "redis"

(***************************************************************************)
(* C26.  Every evaluation Redis decides adds exactly one record to the     *)
(* key's sorted set: the set it leaves has one member more than the        *)
(* records of the window it found, also when an evaluation of the same key *)
(* carried the same timestamp.                                             *)
(***************************************************************************)
C26_OneRecordPerEvaluation ==
    [][\A i \in DOMAIN reqs :
          RedisDecides(i) =>
              Cardinality(zset'[reqs[i].key].members)
                  = Cardinality(Surviving(i)) + 1]_vars

(***************************************************************************)
(* C27.  One policy used alone, timestamps pairwise distinct: the allowed  *)
(* evaluations of a key whose timestamps lie in one interval of            *)
(* window_seconds number at most 2 x max_requests, whatever failed.        *)
(***************************************************************************)
C27_TwiceTheLimit ==
    DistinctTimestamps =>
        \A i \in All :
            (Done(i) /\ ~reqs[i].limited) =>
                Cardinality(AllowedInWindow(i)) <= 2 * limiter[reqs[i].lim].max_requests

\* the caller evaluation i counts: the principal under the user limiter when
\* one is authenticated, the address otherwise
Identity(i) ==
    LET c == reqs[i].ctx
    IN  IF limiter[reqs[i].lim].kind = "user" /\ c.has_user
        THEN [kind |-> "user", id |-> c.user_id]
        ELSE [kind |-> "ip", id |-> Address(c)]

(***************************************************************************)
(* C28.  Two evaluations share a store key only if they count the same     *)
(* caller identity of the same kind: no header or remote address puts an   *)
(* unauthenticated caller under the key of an authenticated principal.     *)
(***************************************************************************)
C28_DisjointNamespaces ==
    \A i, j \in All :
        reqs[i].key = reqs[j].key => Identity(i) = Identity(j)

\* the connection probe of evaluation i succeeds in this step and the
\* evaluation goes on to the script call
ProbePasses(i) ==
    /\ i \in DOMAIN reqs /\ reqs[i].pc = "ping" /\ reqs'[i].pc = "eval"

(***************************************************************************)
(* C29.  The steps of an evaluation that Redis serves, its successful      *)
(* connection probe and its successful script call, leave the memory store *)
(* and the breaker as they found them: a success of one evaluation never   *)
(* turns the breaker back to healthy after another one's failure.          *)
(***************************************************************************)
C29_SuccessChangesNothing ==
    [][\A i \in DOMAIN reqs :
          (ProbePasses(i) \/ RedisDecides(i)) =>
              /\ memory_store' = memory_store
              /\ redis_healthy' = redis_healthy]_vars
====
